---- MODULE Spec2Model ----
(***************************************************************************)
(* A model of the static-site builder in src/builder: the Resource         *)
(* resolution of resources.py (description_path, description,              *)
(* description_with_absolute_urls) and the build orchestration of build.py *)
(* (build_resource, sync_static_path, main).                               *)
(*                                                                         *)
(* The module holds five state machines that share no state.  Each has a   *)
(* specification of its own; while one runs, the others are idle.          *)
(***************************************************************************)
EXTENDS Integers, Sequences, FiniteSets, TLC

(***************************************************************************)
(* Bounds of the model.                                                    *)
(***************************************************************************)
\* the largest number of files in a resource directory
MaxFiles == 3
\* the largest number of tokens in a URL drawn freely
MaxUrlLen == 3
\* the largest number of URLs in a description made of the sample URLs
MaxUrls == 2
\* the largest number of files listed in the directory that build_resource reads
MaxListing == 3
\* the largest number of dependencies a description declares
MaxDeps == 2
\* the largest number of calls of sync_static_path on one source
MaxRuns == 2
\* the largest number of projects, and of pieces, main builds
MaxResources == 1
\* the largest number of static paths in the configuration
MaxStatic == 1

(***************************************************************************)
(* State.                                                                  *)
(***************************************************************************)
\* resource resolution
VARIABLES
  res_pc,                  \* "idle", "new" (before from_path) or "built" (a Resource exists)
  dir_name,                \* final segment of the resource directory
  dir_files,               \* the files the resource directory holds
  origin,                  \* the path handed to from_path (DirPath: the directory itself)
  slug,                    \* Resource.slug
  field_description_path,  \* Resource._description_path
  candidates_order,        \* iteration order of the set `candidates` in description_path
  cache_description_path,  \* cached_property description_path (Unset until computed)
  cache_description        \* cached_property description: where the Document came from

varsResource == <<res_pc, dir_name, dir_files, origin, slug, field_description_path,
                  candidates_order, cache_description_path, cache_description>>

\* URL absolutization
VARIABLES
  url_pc,          \* "idle" or "run"
  r_DIRECTORY,     \* Resource.DIRECTORY of the resource ("projects" or "pieces")
  r_slug,          \* Resource.slug of the resource
  file_doc,        \* the Document that Document.load_file parses from description_path
  heap,            \* the Document objects alive, by reference 1..Len(heap)
  ref_description, \* cached_property description: a reference, 0 until computed
  ref_absolute     \* cached_property description_with_absolute_urls, 0 until computed

varsUrls == <<url_pc, r_DIRECTORY, r_slug, file_doc, heap, ref_description, ref_absolute>>

\* build_resource
VARIABLES
  build_pc,        \* "idle", "start", "deps" (in the dependency loop) or "done"
  b_DIRECTORY,     \* resource.DIRECTORY
  b_slug,          \* resource.slug
  dir_listing,     \* resource.path.iterdir(): the directory's files in listing order
  dependencies,    \* description.iter_dependencies(): the paths the description declares
  dep_i,           \* index of the dependency the loop is at
  fs_ops,          \* what build_resource has done: writes, Asset.to calls and warnings
  returned         \* the path build_resource returned (<<>> until it returns)

varsBuild == <<build_pc, b_DIRECTORY, b_slug, dir_listing, dependencies, dep_i, fs_ops,
               returned>>

\* sync_static_path
VARIABLES
  sync_pc,         \* "idle" or "run"
  source,          \* the static path under the input directory: its kind and files
  dst,             \* the same path under the output directory
  link_fails,      \* the source files on which os.link raises OSError
  copy_fails,      \* whether copying a file's content raises OSError
  sync_log         \* one record per call of sync_static_path

varsSync == <<sync_pc, source, dst, link_fails, copy_fails, sync_log>>

\* main
VARIABLES
  main_pc,         \* the statement main is at, "done", "crashed" or "idle"
  args,            \* the parsed flags
  n_projects,      \* len(projects)
  n_pieces,        \* len(pieces)
  static_paths,    \* CONFIG.static_paths: "file" or "dir" each
  out_dirs,        \* the directories that exist at and under CONFIG.output_dir
  loop_i,          \* index of the current for loop
  phase_log,       \* the build steps completed, in order
  main_raised      \* the exception that ended main ("" if none)

varsMain == <<main_pc, args, n_projects, n_pieces, static_paths, out_dirs, loop_i,
              phase_log, main_raised>>

vars == <<varsResource, varsUrls, varsBuild, varsSync, varsMain>>

(***************************************************************************)
(* Generic helpers.                                                        *)
(***************************************************************************)
Range(s) == {s[i] : i \in 1..Len(s)}

\* every order in which the elements of the finite set S can be iterated
Orders(S) ==
  {o \in [1..Cardinality(S) -> S] : \A x \in S : \E i \in 1..Cardinality(S) : o[i] = x}

(***************************************************************************)
(* RESOURCE RESOLUTION (resources.py)                                      *)
(*                                                                         *)
(* A file name is a record [date, base, suffix]: its text is the           *)
(* concatenation date ++ base ++ suffix, Path.stem is date ++ base and     *)
(* Path.suffix is suffix.  date is "" or a leading date token.             *)
(***************************************************************************)
FileName(d, b, s) == [date |-> d, base |-> b, suffix |-> s]

\* Python's None, the state of a cached_property not yet computed, the directory
\* itself as a from_path argument, and the InitVar's class-level default
None == FileName("", "", "")
Unset == FileName("", "<unset>", "")
DirPath == FileName("", "<dir>", "")
CachedPropertyObject == FileName("", "<cached_property object>", "")

DirNames == {"foo", "Foo", "other"}

MdFiles ==
  { FileName("", "index", ".md"), FileName("", "foo", ".md"), FileName("", "Foo", ".md"),
    FileName("", "other", ".md"), FileName("2021-01-01-", "foo", ".md"),
    FileName("2022-01-01-", "foo", ".md"), FileName("2021-01-01-", "Foo", ".md"),
    FileName("2021-01-01-", "other", ".md") }

HtmlFiles == { FileName("", "other", ".html") }

AllFiles == MdFiles \cup HtmlFiles

\* util.sluggify: lower-cases the stem (the only unsafe characters of the
\* names above are capitals)
sluggify(stem) == IF stem = "Foo" THEN "foo" ELSE stem

\* util.get_slug_and_optional_date(stem)[0]: the stem without its leading
\* date token, sluggified
get_slug_and_optional_date(f) == sluggify(f.base)

\* Order of the texts of the date tokens and bases: digits sort before
\* capitals, capitals before lower-case letters.
DateRank(d) == CASE d = "2021-01-01-" -> 1 [] d = "2022-01-01-" -> 2 [] OTHER -> 3
BaseRank(b) == CASE b = "Foo" -> 1 [] b = "foo" -> 2 [] b = "index" -> 3 [] OTHER -> 4

\* Path.__lt__ / __le__ on two files of one directory: their names compared as text
PathLE(f, g) ==
  \/ DateRank(f.date) < DateRank(g.date)
  \/ /\ f.date = g.date
     /\ BaseRank(f.base) <= BaseRank(g.base)

\* min(candidates): the first minimal element met in iteration order
PathMin(order) ==
  LET least == {i \in 1..Len(order) : \A j \in 1..Len(order) : PathLE(order[i], order[j])}
  IN  order[CHOOSE i \in least : \A j \in least : i <= j]

\* self.path.glob('*.md')
Glob(files) == {f \in files : f.suffix = ".md"}

\* next((p for p in candidates if get_slug_and_optional_date(p.stem)[0] == self.slug), None)
FirstDateMatch(order, s) ==
  LET hits == {i \in 1..Len(order) : get_slug_and_optional_date(order[i]) = s}
  IN  IF hits = {} THEN None ELSE order[CHOOSE i \in hits : \A j \in hits : i <= j]

\* a plausible slip: {slug}.md tried before index.md
description_path_SlugFirst(order, s) ==
  LET candidates == Range(order)
  IN  IF Len(order) <= 1 THEN (IF Len(order) = 0 THEN None ELSE order[1])
      ELSE IF FileName("", s, ".md") \in candidates THEN FileName("", s, ".md")
      ELSE IF FileName("", "index", ".md") \in candidates THEN FileName("", "index", ".md")
      ELSE IF FirstDateMatch(order, s) # None THEN FirstDateMatch(order, s)
      ELSE PathMin(order)

\* Resource.description_path, on the candidate set laid out in `order`
description_path(order, s) ==
  LET candidates == Range(order)
  IN  IF Len(order) <= 1 THEN (IF Len(order) = 0 THEN None ELSE order[1])
      ELSE IF FileName("", "index", ".md") \in candidates THEN FileName("", "index", ".md")
      ELSE IF FileName("", s, ".md") \in candidates THEN FileName("", s, ".md")
      ELSE IF FirstDateMatch(order, s) # None THEN FirstDateMatch(order, s)
      ELSE PathMin(order)

\* Resource.description: the Document is generated when description_path is
\* None and loaded from description_path otherwise
description(dp) ==
  IF dp = None THEN [kind |-> "generated", source |-> None]
  ELSE [kind |-> "loaded", source |-> dp]

NoDocument == [kind |-> "unset", source |-> None]

InitResource ==
  /\ res_pc = "new"
  /\ dir_name \in DirNames
  /\ dir_files \in {F \in SUBSET AllFiles : Cardinality(F) <= MaxFiles}
  /\ origin = None
  /\ slug = ""
  /\ field_description_path = None
  /\ candidates_order = <<>>
  /\ cache_description_path = Unset
  /\ cache_description = NoDocument

IdleResource ==
  /\ res_pc = "idle"
  /\ dir_name = "foo"
  /\ dir_files = {}
  /\ origin = None
  /\ slug = ""
  /\ field_description_path = None
  /\ candidates_order = <<>>
  /\ cache_description_path = Unset
  /\ cache_description = NoDocument

\* Resource.from_path with Resource.__post_init__: a document file makes the
\* Resource of its parent directory and passes itself as description_path;
\* without the argument the InitVar's default is the class attribute of that
\* name, which the later definition of the cached property has rebound.
from_path(p) ==
  /\ res_pc = "new"
  /\ res_pc' = "built"
  /\ origin' = p
  /\ slug' = sluggify(dir_name)
  /\ field_description_path' = IF p.suffix \in {".md", ".html"} THEN p ELSE CachedPropertyObject
  /\ UNCHANGED <<dir_name, dir_files, candidates_order, cache_description_path,
                 cache_description>>
  /\ UNCHANGED <<varsUrls, varsBuild, varsSync, varsMain>>

FromPath == \E p \in {DirPath} \cup dir_files : from_path(p)

\* first read of Resource.description_path
AccessDescriptionPath ==
  /\ res_pc = "built"
  /\ cache_description_path = Unset
  /\ \E order \in Orders(Glob(dir_files)) :
       /\ candidates_order' = order
       /\ cache_description_path' = description_path(order, slug)
  /\ UNCHANGED <<res_pc, dir_name, dir_files, origin, slug, field_description_path,
                 cache_description>>
  /\ UNCHANGED <<varsUrls, varsBuild, varsSync, varsMain>>

\* first read of Resource.description, which reads description_path
AccessDescription ==
  /\ res_pc = "built"
  /\ cache_description = NoDocument
  /\ IF cache_description_path = Unset
     THEN \E order \in Orders(Glob(dir_files)) :
            /\ candidates_order' = order
            /\ cache_description_path' = description_path(order, slug)
            /\ cache_description' = description(description_path(order, slug))
     ELSE /\ cache_description' = description(cache_description_path)
          /\ UNCHANGED <<candidates_order, cache_description_path>>
  /\ UNCHANGED <<res_pc, dir_name, dir_files, origin, slug, field_description_path>>
  /\ UNCHANGED <<varsUrls, varsBuild, varsSync, varsMain>>

NextResource == FromPath \/ AccessDescriptionPath \/ AccessDescription

(***************************************************************************)
(* Claims about resource resolution.                                       *)
(***************************************************************************)
IndexMd == FileName("", "index", ".md")
SlugMd == FileName("", slug, ".md")
\* the candidates whose stem, date stripped and sluggified, is the slug
DateMatches == {f \in Glob(dir_files) : get_slug_and_optional_date(f) = slug}

\* C1: description_path selects by strict priority: None with no candidate,
\* the candidate when there is exactly one, and with several: index.md if
\* present, else {slug}.md if present, else a candidate whose date-stripped,
\* sluggified stem is the slug, else the minimum candidate.
C1_DescriptionPathPriority ==
  cache_description_path # Unset =>
    LET c == Glob(dir_files)
        r == cache_description_path
    IN  IF c = {} THEN r = None
        ELSE IF Cardinality(c) = 1 THEN r \in c
        ELSE IF IndexMd \in c THEN r = IndexMd
        ELSE IF SlugMd \in c THEN r = SlugMd
        ELSE IF DateMatches # {} THEN r \in DateMatches
        ELSE r \in c /\ \A f \in c : PathLE(r, f)

\* several candidates, neither index.md nor {slug}.md, and a dated file is
\* selected because its stem matches the slug once the date is stripped
C1_Witness ==
  /\ cache_description_path # Unset
  /\ Cardinality(Glob(dir_files)) > 1
  /\ IndexMd \notin dir_files
  /\ SlugMd \notin dir_files
  /\ cache_description_path.date # ""
  /\ cache_description_path \in DateMatches
  /\ \E f \in Glob(dir_files) : f \notin DateMatches /\ PathLE(f, cache_description_path)

\* C2: a Resource made by from_path from a document file loads its
\* description from that file, whatever else the directory holds.
C2_ExplicitPathGoverns ==
  (origin.suffix \in {".md", ".html"} /\ cache_description # NoDocument) =>
    cache_description = [kind |-> "loaded", source |-> origin]

\* C9: the file description_path returns does not depend on the iteration
\* order of the candidate set.
C9_OrderIndependent ==
  cache_description_path # Unset =>
    \A o \in Orders(Glob(dir_files)) : description_path(o, slug) = cache_description_path

(***************************************************************************)
(* URL ABSOLUTIZATION (resources.py)                                       *)
(*                                                                         *)
(* A URL is a sequence of tokens whose concatenation is its text: the      *)
(* delimiters ":", "/", "#", "?" and words, each a run of scheme           *)
(* characters that starts with a letter.  A Document is a record of its    *)
(* title and of the URLs its body holds; Documents live in a heap of       *)
(* objects and the cached properties hold references into it.              *)
(***************************************************************************)
Delimiters == {":", "/", "#", "?"}
UrlTokens == {"file", "FILE", "http", "img.png", ":", "/", "#"}

\* str.lower on a word
Lower(t) == IF t = "FILE" THEN "file" ELSE t

\* str.find: the first index of a token of set T in u at or after `start`, 0 if none
Find(u, T, start) ==
  LET hits == {i \in start..Len(u) : u[i] \in T}
  IN  IF hits = {} THEN 0 ELSE CHOOSE i \in hits : \A j \in hits : i <= j

\* str.split(c, 1)[0]: the text before the first token of T
Before(u, T) == IF Find(u, T, 1) = 0 THEN u ELSE SubSeq(u, 1, Find(u, T, 1) - 1)

\* urllib.parse.urlsplit(url, scheme=default): the scheme, netloc and path
urlsplit(u, default) ==
  LET i == Find(u, {":"}, 1)
      hasScheme == i > 1 /\ \A j \in 1..(i - 1) : u[j] \notin Delimiters
      scheme == IF hasScheme THEN [j \in 1..(i - 1) |-> Lower(u[j])] ELSE default
      rest == IF hasScheme THEN SubSeq(u, i + 1, Len(u)) ELSE u
      hasNetloc == Len(rest) >= 2 /\ rest[1] = "/" /\ rest[2] = "/"
      delim == IF Find(rest, {"/", "?", "#"}, 3) = 0 THEN Len(rest) + 1
               ELSE Find(rest, {"/", "?", "#"}, 3)
      netloc == IF hasNetloc THEN SubSeq(rest, 3, delim - 1) ELSE <<>>
      after == IF hasNetloc THEN SubSeq(rest, delim, Len(rest)) ELSE rest
  IN  [scheme |-> scheme, netloc |-> netloc, path |-> Before(Before(after, {"#"}), {"?"})]

\* str.startswith('/')
StartsWithSlash(path) == Len(path) >= 1 /\ path[1] = "/"

\* a plausible slip: only the scheme is looked at
is_relative_url_SchemeOnly(u) == urlsplit(u, <<"file">>).scheme = <<"file">>

\* is_relative_url
is_relative_url(u) ==
  /\ urlsplit(u, <<"file">>).scheme = <<"file">>
  /\ ~StartsWithSlash(urlsplit(u, <<"file">>).path)

\* str.join: the texts of `parts` with sep between them
RECURSIVE Join(_, _)
Join(sep, parts) ==
  IF Len(parts) = 0 THEN <<>>
  ELSE IF Len(parts) = 1 THEN parts[1]
  ELSE parts[1] \o sep \o Join(sep, Tail(parts))

\* fn of description_with_absolute_urls
fn(u, D, s) ==
  IF ~is_relative_url(u) THEN u
  ELSE Join(<<"/">>, << <<>>, <<D>>, <<s>>, u >>)

\* Document.rewrite_urls(fn): fn applied to every URL of the Document, in place
rewrite_urls(doc, D, s) ==
  [doc EXCEPT !.urls = [i \in 1..Len(doc.urls) |-> fn(doc.urls[i], D, s)]]

\* cached_property description: the cached object, loaded on the first read
\* (the heap after the read, and the reference read)
read_description(h, ref) ==
  IF ref # 0 THEN [heap |-> h, ref |-> ref]
  ELSE [heap |-> Append(h, file_doc), ref |-> Len(h) + 1]

\* a plausible slip: the cached Document itself is rewritten, not a copy
description_with_absolute_urls_NoCopy(h, ref, D, s) ==
  LET d == read_description(h, ref)
  IN  [heap |-> [d.heap EXCEPT ![d.ref] = rewrite_urls(d.heap[d.ref], D, s)],
       description |-> d.ref, ref |-> d.ref]

\* Resource.description_with_absolute_urls: a deep copy of description,
\* rewritten (the heap after the call, the reference description holds and
\* the reference returned)
description_with_absolute_urls(h, ref, D, s) ==
  LET d == read_description(h, ref)
      copied == Append(d.heap, d.heap[d.ref])
      doc == Len(copied)
  IN  [heap |-> [copied EXCEPT ![doc] = rewrite_urls(copied[doc], D, s)],
       description |-> d.ref, ref |-> doc]

\* every URL of at most n tokens
RECURSIVE UrlsUpTo(_)
UrlsUpTo(n) ==
  IF n = 0 THEN {<<>>}
  ELSE UrlsUpTo(n - 1) \cup {Append(u, t) : u \in UrlsUpTo(n - 1), t \in UrlTokens}

\* img.png, /other/page and http://example.com
SampleUrls ==
  { <<"img.png">>, <<"/", "other", "/", "page">>, <<"http", ":", "/", "/", "example.com">> }

RECURSIVE SeqsUpTo(_, _)
SeqsUpTo(S, n) ==
  IF n = 0 THEN {<<>>}
  ELSE SeqsUpTo(S, n - 1) \cup {Append(q, x) : q \in SeqsUpTo(S, n - 1), x \in S}

\* the descriptions on disk: one URL of any shape, or several of the samples
Documents ==
  {[title |-> "A title", urls |-> q] :
     q \in {<<u>> : u \in UrlsUpTo(MaxUrlLen)} \cup SeqsUpTo(SampleUrls, MaxUrls)}

InitUrls ==
  /\ url_pc = "run"
  /\ r_DIRECTORY \in {"projects", "pieces"}
  /\ r_slug \in {"foo", "bar"}
  /\ file_doc \in Documents
  /\ heap = <<>>
  /\ ref_description = 0
  /\ ref_absolute = 0

IdleUrls ==
  /\ url_pc = "idle"
  /\ r_DIRECTORY = "projects"
  /\ r_slug = "foo"
  /\ file_doc = [title |-> "A title", urls |-> <<>>]
  /\ heap = <<>>
  /\ ref_description = 0
  /\ ref_absolute = 0

\* first read of resource.description (build_resource reads it)
ReadDescription ==
  /\ url_pc = "run"
  /\ ref_description = 0
  /\ heap' = read_description(heap, ref_description).heap
  /\ ref_description' = read_description(heap, ref_description).ref
  /\ UNCHANGED <<url_pc, r_DIRECTORY, r_slug, file_doc, ref_absolute>>
  /\ UNCHANGED <<varsResource, varsBuild, varsSync, varsMain>>

\* first read of resource.description_with_absolute_urls (gallery_item reads it)
ReadDescriptionWithAbsoluteUrls ==
  /\ url_pc = "run"
  /\ ref_absolute = 0
  /\ LET r == description_with_absolute_urls(heap, ref_description, r_DIRECTORY, r_slug)
     IN  /\ heap' = r.heap
         /\ ref_description' = r.description
         /\ ref_absolute' = r.ref
  /\ UNCHANGED <<url_pc, r_DIRECTORY, r_slug, file_doc>>
  /\ UNCHANGED <<varsResource, varsBuild, varsSync, varsMain>>

NextUrls == ReadDescription \/ ReadDescriptionWithAbsoluteUrls

(***************************************************************************)
(* Claims about URL absolutization.                                        *)
(***************************************************************************)
\* the URL has no scheme of its own, or its scheme is file
NoSchemeOrFile(u) == urlsplit(u, <<>>).scheme \in {<<>>, <<"file">>}

\* C4: in description_with_absolute_urls a URL with no scheme (or the file
\* scheme) whose path does not start with "/" becomes /{DIRECTORY}/{slug}/{url};
\* every other URL is left unchanged.
C4_UrlsAbsolutized ==
  ref_absolute # 0 =>
    /\ Len(heap[ref_absolute].urls) = Len(file_doc.urls)
    /\ \A i \in 1..Len(file_doc.urls) :
         LET u == file_doc.urls[i]
             v == heap[ref_absolute].urls[i]
         IN  IF NoSchemeOrFile(u) /\ ~StartsWithSlash(urlsplit(u, <<>>).path)
             THEN v = <<"/", r_DIRECTORY, "/", r_slug, "/">> \o u
             ELSE v = u

\* img.png, /other/page and http://example.com in Project foo
C4_Witness ==
  /\ ref_absolute # 0
  /\ r_DIRECTORY = "projects"
  /\ r_slug = "foo"
  /\ file_doc.urls = << <<"img.png">>, <<"http", ":", "/", "/", "example.com">> >>
  /\ heap[ref_absolute].urls = << <<"/", "projects", "/", "foo", "/", "img.png">>,
                                  <<"http", ":", "/", "/", "example.com">> >>

\* C6: the cached description is never changed by the URL rewrite: whenever
\* it is read it is the Document as loaded, and the absolutized Document is
\* another object.
C6_DescriptionNotRewritten ==
  /\ ref_description # 0 => heap[ref_description] = file_doc
  /\ ref_absolute # 0 => ref_absolute # ref_description

\* both are cached and the rewrite changed a URL of the copy
C6_Witness ==
  /\ ref_description # 0
  /\ ref_absolute # 0
  /\ heap[ref_absolute] # heap[ref_description]
  /\ heap[ref_absolute].title = heap[ref_description].title

(***************************************************************************)
(* PAGE BUILDER (build.py, build_resource)                                 *)
(*                                                                         *)
(* A path is the sequence of its parts (pathlib's Path.parts); a part is a *)
(* record [stem, suffix] whose text is stem ++ suffix.  An absolute path   *)
(* starts with the part Root.                                              *)
(***************************************************************************)
Part(stem, suffix) == [stem |-> stem, suffix |-> suffix]
Root == Part("/", "")
DotDot == Part("..", "")
NoPart == Part("", "")

\* CONFIG.output_dir
output_dir == <<Root, Part("output", "")>>

\* the files a resource directory may hold
ResourceFiles ==
  { Part("chart", ".png"), Part("photo", ".jpg"), Part("photo", ".raw"),
    Part("index", ".md"), Part("README", "") }

\* the dependency paths a description may declare: chart.png, photo.png,
\* missing.gif, img/photo.jpg, ../bar/chart.png and /etc/chart.png
DependencyPaths ==
  { <<Part("chart", ".png")>>, <<Part("photo", ".png")>>, <<Part("missing", ".gif")>>,
    <<Part("img", ""), Part("photo", ".jpg")>>,
    <<DotDot, Part("bar", ""), Part("chart", ".png")>>,
    <<Root, Part("etc", ""), Part("chart", ".png")>> }

\* the sequences of at most n distinct elements of S
RECURSIVE ListingsUpTo(_, _)
ListingsUpTo(S, n) ==
  IF n = 0 THEN {<<>>}
  ELSE ListingsUpTo(S, n - 1) \cup
       UNION {{Append(q, x) : x \in S \ Range(q)} : q \in ListingsUpTo(S, n - 1)}

\* Resource.asset_paths: the listed files whose suffix is not .md, .html or empty
IsAsset(p) == p.suffix \notin {".md", ".html", ""}
asset_paths(listing) == SelectSeq(listing, IsAsset)

\* Path.is_absolute and Path.stem
is_absolute(path) == Len(path) >= 1 /\ path[1] = Root
stem(path) == path[Len(path)].stem

\* page_dir and page_file of build_resource
page_dir(D, s) == output_dir \o <<Part(D, ""), Part(s, "")>>
page_file(D, s) == page_dir(D, s) \o <<Part("index", ".html")>>

\* assets = {p.stem: Asset(p) for p in resource.asset_paths}: a later path
\* replaces an earlier one of the same stem
in_assets(ap, st) == \E i \in 1..Len(ap) : ap[i].stem = st
assets(ap, st) == ap[CHOOSE i \in 1..Len(ap) :
                       ap[i].stem = st /\ \A j \in 1..Len(ap) : ap[j].stem = st => j <= i]

Op(op, i, src, to) == [op |-> op, dep |-> i, src |-> src, dst |-> to]

\* a plausible slip: the asset is looked up by its file name, not its stem
reconcile_ByName(ap, pd, i, dependency) ==
  LET path == IF is_absolute(dependency) THEN dependency ELSE pd \o dependency
  IN  IF \E k \in 1..Len(ap) : ap[k] = path[Len(path)]
      THEN <<Op("to", i, assets(ap, stem(path)), path)>>
      ELSE <<Op("warning", i, NoPart, path)>>

\* one turn of the dependency loop of build_resource: what it does for the
\* i-th dependency
reconcile(ap, pd, i, dependency) ==
  LET path == IF is_absolute(dependency) THEN dependency ELSE pd \o dependency
  IN  IF in_assets(ap, stem(path))
      THEN <<Op("to", i, assets(ap, stem(path)), path)>>
      ELSE <<Op("warning", i, NoPart, path)>>

InitBuild ==
  /\ build_pc = "start"
  /\ b_DIRECTORY \in {"projects", "pieces"}
  /\ b_slug = "foo"
  /\ dir_listing \in ListingsUpTo(ResourceFiles, MaxListing)
  /\ dependencies \in SeqsUpTo(DependencyPaths, MaxDeps)
  /\ dep_i = 0
  /\ fs_ops = <<>>
  /\ returned = <<>>

IdleBuild ==
  /\ build_pc = "idle"
  /\ b_DIRECTORY = "projects"
  /\ b_slug = "foo"
  /\ dir_listing = <<>>
  /\ dependencies = <<>>
  /\ dep_i = 0
  /\ fs_ops = <<>>
  /\ returned = <<>>

\* build_resource up to the loop: the page is rendered and written
BuildPage ==
  /\ build_pc = "start"
  /\ build_pc' = "deps"
  /\ fs_ops' = <<Op("write_text", 0, NoPart, page_file(b_DIRECTORY, b_slug))>>
  /\ dep_i' = 1
  /\ UNCHANGED <<b_DIRECTORY, b_slug, dir_listing, dependencies, returned>>
  /\ UNCHANGED <<varsResource, varsUrls, varsSync, varsMain>>

\* one turn of the loop over description.iter_dependencies()
BuildDependency ==
  /\ build_pc = "deps"
  /\ dep_i <= Len(dependencies)
  /\ fs_ops' = fs_ops \o reconcile(asset_paths(dir_listing), page_dir(b_DIRECTORY, b_slug),
                                   dep_i, dependencies[dep_i])
  /\ dep_i' = dep_i + 1
  /\ UNCHANGED <<build_pc, b_DIRECTORY, b_slug, dir_listing, dependencies, returned>>
  /\ UNCHANGED <<varsResource, varsUrls, varsSync, varsMain>>

\* the loop is over: return page_file
BuildReturn ==
  /\ build_pc = "deps"
  /\ dep_i > Len(dependencies)
  /\ build_pc' = "done"
  /\ returned' = page_file(b_DIRECTORY, b_slug)
  /\ UNCHANGED <<b_DIRECTORY, b_slug, dir_listing, dependencies, dep_i, fs_ops>>
  /\ UNCHANGED <<varsResource, varsUrls, varsSync, varsMain>>

NextBuild == BuildPage \/ BuildDependency \/ BuildReturn

(***************************************************************************)
(* Claims about build_resource.                                            *)
(***************************************************************************)
\* the operations of kind op done for the i-th dependency
OpsFor(op, i) == {k \in 1..Len(fs_ops) : fs_ops[k].op = op /\ fs_ops[k].dep = i}

\* the dependency path resolved against the page's output directory
Resolved(dependency) ==
  IF dependency[1] = Root THEN dependency
  ELSE <<Root, Part("output", ""), Part(b_DIRECTORY, ""), Part(b_slug, "")>> \o dependency

\* the resource's assets of the stem of the dependency's file name
SameStem(dependency) ==
  {p \in Range(dir_listing) :
     p.suffix \notin {".md", ".html", ""} /\ p.stem = dependency[Len(dependency)].stem}

\* C5: once build_resource has returned, every declared dependency whose
\* stem an asset has was materialized exactly once, to the dependency path
\* resolved against the page directory; for every other dependency nothing
\* was materialized and a warning was logged; every dependency was
\* processed, the page file was returned, and every materialized asset has
\* the stem of the dependency it was materialized for.
C5_DependenciesReconciled ==
  build_pc = "done" =>
    /\ returned = page_file(b_DIRECTORY, b_slug)
    /\ \A i \in 1..Len(dependencies) :
         IF SameStem(dependencies[i]) # {}
         THEN /\ Cardinality(OpsFor("to", i)) = 1
              /\ \A k \in OpsFor("to", i) :
                   /\ fs_ops[k].dst = Resolved(dependencies[i])
                   /\ fs_ops[k].src \in SameStem(dependencies[i])
              /\ OpsFor("warning", i) = {}
         ELSE /\ OpsFor("to", i) = {}
              /\ Cardinality(OpsFor("warning", i)) = 1
    /\ \A k \in 1..Len(fs_ops) : fs_ops[k].op = "to" => fs_ops[k].dep \in 1..Len(dependencies)

\* a missing dependency is followed by a matched one, an asset is left
\* unreferenced, and build_resource has returned
C5_Witness ==
  /\ build_pc = "done"
  /\ Len(dependencies) = 2
  /\ SameStem(dependencies[1]) = {}
  /\ OpsFor("warning", 1) # {}
  /\ OpsFor("to", 2) # {}
  /\ \E p \in Range(asset_paths(dir_listing)) :
       \A k \in 1..Len(fs_ops) : fs_ops[k].src # p

\* the path with its ".." parts resolved
RECURSIVE Normalized(_)
Normalized(path) ==
  IF Len(path) = 0 THEN <<>>
  ELSE LET front == Normalized(SubSeq(path, 1, Len(path) - 1))
           last == path[Len(path)]
       IN  IF last # DotDot THEN Append(front, last)
           ELSE IF Len(front) <= 1 THEN front
           ELSE SubSeq(front, 1, Len(front) - 1)

IsPrefix(p, q) == Len(p) <= Len(q) /\ SubSeq(q, 1, Len(p)) = p

\* C10: every file build_resource writes or materializes lies inside the
\* resource's page directory.
C10_WritesInsidePageDir ==
  \A k \in 1..Len(fs_ops) :
    fs_ops[k].op \in {"write_text", "to"} =>
      IsPrefix(page_dir(b_DIRECTORY, b_slug), Normalized(fs_ops[k].dst))

(***************************************************************************)
(* STATIC SYNC (build.py, sync_static_path)                                *)
(*                                                                         *)
(* The source is a file, a directory tree or missing; `files` names the    *)
(* files it holds (for a file, itself).  The destination is absent, a      *)
(* file, a directory or a symbolic link to a directory; an entry of it has *)
(* the name of a file, whether its content is that of the source file of   *)
(* that name ("same") or not ("stale"), and whether it is a hard link to   *)
(* that source file.                                                       *)
(***************************************************************************)
Entry(name, content, linked) == [name |-> name, content |-> content, linked |-> linked]
Absent == [kind |-> "absent", entries |-> {}]

SourceTrees ==
  {[kind |-> "file", files |-> {"style.css"}], [kind |-> "missing", files |-> {}]}
  \cup {[kind |-> "dir", files |-> F] : F \in SUBSET {"a.css", "b.js", "sub/c.png"}}

\* what the output directory may hold at the destination before the first call
Destinations(src) ==
  IF src.kind = "file"
  THEN {Absent, [kind |-> "file", entries |-> {Entry("style.css", "stale", FALSE)}]}
  ELSE IF src.kind = "dir"
  THEN {Absent, [kind |-> "symlink", entries |-> {}],
        [kind |-> "dir", entries |-> {Entry("old.css", "stale", FALSE)}]}
  ELSE {Absent}

\* the files a copy function fails on: os.link on link_fails, a content
\* copy on every file when copying fails
LinkFailures(src) == src.files \cap link_fails
CopyFailures(src) == IF copy_fails THEN src.files ELSE {}

\* shutil.copytree(src, dst, copy_function): dst must not exist; it is
\* created, every file is copied with copy_function, the files it raised
\* OSError on are skipped, and shutil.Error is raised at the end if any was
copytree(src, d, failures, linked) ==
  IF d.kind # "absent"
  THEN [dst |-> d, raised |-> "FileExistsError", rmtree |-> FALSE]
  ELSE [dst |-> [kind |-> "dir",
                 entries |-> {Entry(f, "same", linked) : f \in src.files \ failures}],
        raised |-> IF failures = {} THEN "" ELSE "shutil.Error",
        rmtree |-> FALSE]

\* shutil.copy2(src, dst) on a file
copy2(src, d) ==
  IF CopyFailures(src) # {}
  THEN [dst |-> d, raised |-> "OSError", rmtree |-> FALSE]
  ELSE [dst |-> [kind |-> "file", entries |-> {Entry(f, "same", FALSE) : f \in src.files}],
        raised |-> "", rmtree |-> FALSE]

\* Path.samefile
samefile(d) == \A e \in d.entries : e.linked

\* sync_static_path(src): the destination after the call, the exception it
\* raised ("" if none) and whether it removed the destination tree
sync_static_path(src, d) ==
  IF src.kind = "file" THEN
    IF d.kind = "absent" THEN
      IF LinkFailures(src) = {}
      THEN [dst |-> [kind |-> "file",
                     entries |-> {Entry(f, "same", TRUE) : f \in src.files}],
            raised |-> "", rmtree |-> FALSE]
      ELSE copy2(src, d)
    ELSE IF samefile(d) THEN [dst |-> d, raised |-> "", rmtree |-> FALSE]
    ELSE copy2(src, d)
  ELSE IF src.kind = "dir" THEN
    IF d.kind = "absent" THEN
      LET linking == copytree(src, d, LinkFailures(src), TRUE)
      IN  IF linking.raised = "" THEN linking
          ELSE copytree(src, linking.dst, CopyFailures(src), FALSE)
    ELSE IF d.kind = "symlink" THEN [dst |-> d, raised |-> "", rmtree |-> FALSE]
    ELSE [copytree(src, Absent, CopyFailures(src), FALSE) EXCEPT !.rmtree = TRUE]
  ELSE [dst |-> d, raised |-> "", rmtree |-> FALSE]

InitSync ==
  /\ sync_pc = "run"
  /\ source \in SourceTrees
  /\ dst \in Destinations(source)
  /\ link_fails \in SUBSET source.files
  /\ copy_fails \in BOOLEAN
  /\ sync_log = <<>>

IdleSync ==
  /\ sync_pc = "idle"
  /\ source = [kind |-> "missing", files |-> {}]
  /\ dst = Absent
  /\ link_fails = {}
  /\ copy_fails = FALSE
  /\ sync_log = <<>>

\* one call of sync_static_path on the unchanged source
SyncStaticPath ==
  /\ sync_pc = "run"
  /\ Len(sync_log) < MaxRuns
  /\ LET r == sync_static_path(source, dst)
     IN  /\ dst' = r.dst
         /\ sync_log' = Append(sync_log, [before |-> dst, after |-> r.dst,
                                          raised |-> r.raised, rmtree |-> r.rmtree])
  /\ UNCHANGED <<sync_pc, source, link_fails, copy_fails>>
  /\ UNCHANGED <<varsResource, varsUrls, varsBuild, varsMain>>

NextSync == SyncStaticPath

(***************************************************************************)
(* Claims about sync_static_path.                                          *)
(***************************************************************************)
\* what a tree holds: its kind and the content of each of its files
Content(d) ==
  [kind |-> d.kind, files |-> {[name |-> e.name, content |-> e.content] : e \in d.entries}]

\* the content of a full copy of the source
FullCopy ==
  [kind |-> source.kind, files |-> {[name |-> f, content |-> "same"] : f \in source.files}]

\* C3: two calls in a row on an unchanged source, the first with the
\* destination absent: the destination holds the same content after the
\* second call as after the first, and the second call removes nothing.
C3_SecondRunIdempotent ==
  (/\ Len(sync_log) >= 2
   /\ source.kind \in {"file", "dir"}
   /\ sync_log[1].before = Absent
   /\ sync_log[1].raised = "") =>
    /\ Content(sync_log[2].after) = Content(sync_log[1].after)
    /\ ~sync_log[2].rmtree

\* C8: a call with the destination absent in which hardlinking fails while
\* copying would succeed completes without raising and leaves a full copy
\* of the source at the destination.
C8_LinkFailureFallsBackToCopy ==
  \A i \in 1..Len(sync_log) :
    (/\ sync_log[i].before = Absent
     /\ source.kind \in {"file", "dir"}
     /\ source.files \cap link_fails # {}
     /\ ~copy_fails) =>
      /\ sync_log[i].raised = ""
      /\ Content(sync_log[i].after) = FullCopy

(***************************************************************************)
(* BUILD ORCHESTRATOR (build.py, main)                                     *)
(*                                                                         *)
(* main from `if args.should_clean` on.  Of the file system it reads and   *)
(* writes, the model keeps which of the directories output, output/projects *)
(* and output/pieces exist: Path.write_text and a file copy raise          *)
(* FileNotFoundError when the parent directory is missing.  Static paths   *)
(* lie directly under the output directory, and hard links work.           *)
(***************************************************************************)
OutputDirs == {"output", "output/projects", "output/pieces"}

\* main ends with an exception
Crash(exception) ==
  /\ main_pc' = "crashed"
  /\ main_raised' = exception
  /\ UNCHANGED <<args, n_projects, n_pieces, static_paths, out_dirs, loop_i, phase_log>>

InitMain ==
  /\ main_pc = "clean"
  /\ args \in [clean : BOOLEAN, project_pages : BOOLEAN, piece_pages : BOOLEAN,
               gallery : BOOLEAN, sync_static : BOOLEAN]
  /\ n_projects \in 0..MaxResources
  /\ n_pieces \in 0..MaxResources
  /\ static_paths \in SeqsUpTo({"file", "dir"}, MaxStatic)
  /\ out_dirs \in {S \in SUBSET OutputDirs : S # {} => "output" \in S}
  /\ loop_i = 1
  /\ phase_log = <<>>
  /\ main_raised = ""

IdleMain ==
  /\ main_pc = "idle"
  /\ args = [clean |-> FALSE, project_pages |-> FALSE, piece_pages |-> FALSE,
             gallery |-> FALSE, sync_static |-> FALSE]
  /\ n_projects = 0
  /\ n_pieces = 0
  /\ static_paths = <<>>
  /\ out_dirs = {}
  /\ loop_i = 1
  /\ phase_log = <<>>
  /\ main_raised = ""

\* if args.should_clean: shutil.rmtree(CONFIG.output_dir, ignore_errors=True)
MainClean ==
  /\ main_pc = "clean"
  /\ main_pc' = "project_pages"
  /\ IF args.clean
     THEN out_dirs' = {} /\ phase_log' = Append(phase_log, "clean")
     ELSE UNCHANGED <<out_dirs, phase_log>>
  /\ loop_i' = 1
  /\ UNCHANGED <<args, n_projects, n_pieces, static_paths, main_raised>>
  /\ UNCHANGED <<varsResource, varsUrls, varsBuild, varsSync>>

\* build_resource(project): page_dir.mkdir(exist_ok=True, parents=True) and the page
MainBuildProject ==
  /\ main_pc = "project_pages"
  /\ args.project_pages
  /\ loop_i <= n_projects
  /\ out_dirs' = out_dirs \cup {"output", "output/projects"}
  /\ phase_log' = Append(phase_log, "project_page")
  /\ loop_i' = loop_i + 1
  /\ UNCHANGED <<main_pc, args, n_projects, n_pieces, static_paths, main_raised>>
  /\ UNCHANGED <<varsResource, varsUrls, varsBuild, varsSync>>

MainProjectsDone ==
  /\ main_pc = "project_pages"
  /\ ~args.project_pages \/ loop_i > n_projects
  /\ main_pc' = "piece_pages"
  /\ loop_i' = 1
  /\ UNCHANGED <<args, n_projects, n_pieces, static_paths, out_dirs, phase_log, main_raised>>
  /\ UNCHANGED <<varsResource, varsUrls, varsBuild, varsSync>>

\* build_resource(piece)
MainBuildPiece ==
  /\ main_pc = "piece_pages"
  /\ args.piece_pages
  /\ loop_i <= n_pieces
  /\ out_dirs' = out_dirs \cup {"output", "output/pieces"}
  /\ phase_log' = Append(phase_log, "piece_page")
  /\ loop_i' = loop_i + 1
  /\ UNCHANGED <<main_pc, args, n_projects, n_pieces, static_paths, main_raised>>
  /\ UNCHANGED <<varsResource, varsUrls, varsBuild, varsSync>>

MainPiecesDone ==
  /\ main_pc = "piece_pages"
  /\ ~args.piece_pages \/ loop_i > n_pieces
  /\ main_pc' = "gallery_projects"
  /\ loop_i' = 1
  /\ UNCHANGED <<args, n_projects, n_pieces, static_paths, out_dirs, phase_log, main_raised>>
  /\ UNCHANGED <<varsResource, varsUrls, varsBuild, varsSync>>

\* build_resources_index(resources, kind): output_path.write_text(page) with
\* output_path = CONFIG.output_dir / kind / 'index.html'
build_resources_index(kind, step, next) ==
  IF ("output/" \o kind) \in out_dirs
  THEN /\ main_pc' = next
       /\ phase_log' = Append(phase_log, step)
       /\ UNCHANGED <<args, n_projects, n_pieces, static_paths, out_dirs, loop_i,
                      main_raised>>
  ELSE Crash("FileNotFoundError")

\* if args.should_update_gallery: build_resources_index(projects, kind=Project)
MainIndexProjects ==
  /\ main_pc = "gallery_projects"
  /\ IF args.gallery
     THEN build_resources_index("projects", "index_projects", "gallery_pieces")
     ELSE /\ main_pc' = "sync_static"
          /\ UNCHANGED <<args, n_projects, n_pieces, static_paths, out_dirs, loop_i,
                         phase_log, main_raised>>
  /\ UNCHANGED <<varsResource, varsUrls, varsBuild, varsSync>>

\* build_resources_index(pieces, kind=Piece)
MainIndexPieces ==
  /\ main_pc = "gallery_pieces"
  /\ build_resources_index("pieces", "index_pieces", "sync_static")
  /\ UNCHANGED <<varsResource, varsUrls, varsBuild, varsSync>>

\* sync_static_path(static_path): a directory is copied with copytree, which
\* makes the missing parents; a file is linked or copied into its parent
MainSyncStatic ==
  /\ main_pc = "sync_static"
  /\ args.sync_static
  /\ loop_i <= Len(static_paths)
  /\ IF static_paths[loop_i] = "dir" \/ "output" \in out_dirs
     THEN /\ out_dirs' = out_dirs \cup {"output"}
          /\ phase_log' = Append(phase_log, "sync_static")
          /\ loop_i' = loop_i + 1
          /\ UNCHANGED <<main_pc, args, n_projects, n_pieces, static_paths, main_raised>>
     ELSE Crash("FileNotFoundError")
  /\ UNCHANGED <<varsResource, varsUrls, varsBuild, varsSync>>

MainSyncDone ==
  /\ main_pc = "sync_static"
  /\ ~args.sync_static \/ loop_i > Len(static_paths)
  /\ main_pc' = "homepage"
  /\ UNCHANGED <<args, n_projects, n_pieces, static_paths, out_dirs, loop_i, phase_log,
                 main_raised>>
  /\ UNCHANGED <<varsResource, varsUrls, varsBuild, varsSync>>

\* build_homepage(): output_path.write_text(page) with
\* output_path = CONFIG.output_dir / 'index.html'
MainHomepage ==
  /\ main_pc = "homepage"
  /\ IF "output" \in out_dirs
     THEN /\ main_pc' = "done"
          /\ phase_log' = Append(phase_log, "homepage")
          /\ UNCHANGED <<args, n_projects, n_pieces, static_paths, out_dirs, loop_i,
                         main_raised>>
     ELSE Crash("FileNotFoundError")
  /\ UNCHANGED <<varsResource, varsUrls, varsBuild, varsSync>>

NextMain ==
  \/ MainClean
  \/ MainBuildProject
  \/ MainProjectsDone
  \/ MainBuildPiece
  \/ MainPiecesDone
  \/ MainIndexProjects
  \/ MainIndexPieces
  \/ MainSyncStatic
  \/ MainSyncDone
  \/ MainHomepage

(***************************************************************************)
(* Claims about main.                                                      *)
(***************************************************************************)
Repeat(x, n) == [i \in 1..n |-> x]

\* the steps of a run under the flags: the enabled phases in the order
\* project pages, piece pages, gallery indices, static sync, then the homepage
ExpectedPhases ==
  (IF args.clean THEN <<"clean">> ELSE <<>>)
  \o (IF args.project_pages THEN Repeat("project_page", n_projects) ELSE <<>>)
  \o (IF args.piece_pages THEN Repeat("piece_page", n_pieces) ELSE <<>>)
  \o (IF args.gallery THEN <<"index_projects", "index_pieces">> ELSE <<>>)
  \o (IF args.sync_static THEN Repeat("sync_static", Len(static_paths)) ELSE <<>>)
  \o <<"homepage">>

\* C7: in every run of main, whatever the flags, the enabled phases execute
\* in the order project pages, piece pages, gallery indices, static sync,
\* and the homepage is built after them.
C7_PhasesInOrderHomepageLast ==
  main_pc \in {"done", "crashed"} => phase_log = ExpectedPhases

(***************************************************************************)
(* Specifications: one per state machine, and all of them together.        *)
(***************************************************************************)
InitResourceOnly == InitResource /\ IdleUrls /\ IdleBuild /\ IdleSync /\ IdleMain
InitUrlsOnly == IdleResource /\ InitUrls /\ IdleBuild /\ IdleSync /\ IdleMain
InitBuildOnly == IdleResource /\ IdleUrls /\ InitBuild /\ IdleSync /\ IdleMain
InitSyncOnly == IdleResource /\ IdleUrls /\ IdleBuild /\ InitSync /\ IdleMain
InitMainOnly == IdleResource /\ IdleUrls /\ IdleBuild /\ IdleSync /\ InitMain

SpecResource == InitResourceOnly /\ [][NextResource]_vars
SpecUrls == InitUrlsOnly /\ [][NextUrls]_vars
SpecBuild == InitBuildOnly /\ [][NextBuild]_vars
SpecSync == InitSyncOnly /\ [][NextSync]_vars
SpecMain == InitMainOnly /\ [][NextMain]_vars

Init == InitResourceOnly \/ InitUrlsOnly \/ InitBuildOnly \/ InitSyncOnly \/ InitMainOnly
Next == NextResource \/ NextUrls \/ NextBuild \/ NextSync \/ NextMain
Spec == Init /\ [][Next]_vars

====
